---- MODULE Spec2Model ----
(***************************************************************************)
(* State-machine model of docs/ESP32_CLIENT_EXAMPLE.cpp: an ESP32 sketch   *)
(* that samples a vibration pin and a gas pin every READ_INTERVAL ms and   *)
(* posts the latest sample as JSON every SEND_INTERVAL ms.                 *)
(*                                                                         *)
(* The sketch is single threaded.  Its environment is the millis() clock,  *)
(* the two input pins, the WiFi link and the HTTP server.  The clock is    *)
(* modelled at the instants the program observes it or waits on it: each   *)
(* read of millis(), each delay() and each blocking POST advance it.       *)
(* One pass of loop() is one step, up to the point where it blocks in      *)
(* http.POST; the return of that call is a second step.                    *)
(***************************************************************************)
EXTENDS Integers, Sequences, FiniteSets, TLC

(* ------------------------------ bounds --------------------------------- *)
\* unsigned long is 32 bits wide on the ESP32; the model keeps the modular
\* arithmetic and scales the modulus down to ClockUnits clock grains.
ClockUnits == 22
\* int is 32 bits wide on the ESP32; the model keeps two's complement and
\* scales the width down to IntBits bits.
IntBits == 3
\* a blocking POST lasts at most MaxPostUnits clock grains
MaxPostUnits == 7
\* the step counters nSamples and nSends saturate at MaxCount
MaxCount == 2

(* ------------------------- program constants --------------------------- *)
READ_INTERVAL == 30
SEND_INTERVAL == 200
DEVICE_ID == "esp32_001"
\* delay(500) in setup's polling loop
SETUP_DELAY == 500
\* the thresholds of the gas classification
RISK_LEVEL == 4000
WARNING_LEVEL == 3500

(* --------------------------- derived values ---------------------------- *)
RECURSIVE GCD(_, _)
GCD(a, b) == IF b = 0 THEN a ELSE GCD(b, a % b)

\* the grain of the modelled clock: every interval of the sketch is a
\* multiple of it, so every due-check meets its boundary exactly
Grain == GCD(GCD(READ_INTERVAL, SEND_INTERVAL), SETUP_DELAY)

\* millis() counts modulo ClockMod (2^32 in the build)
ClockMod == ClockUnits * Grain

\* the range of int
IntMax == 2 ^ (IntBits - 1) - 1
IntMin == 0 - 2 ^ (IntBits - 1)

\* how far the clock has moved on when loop() reads it again after a pass
\* that did not post
LoopTicks == {0, Grain}
\* how long a blocking POST can take: no time, one grain, or the longest
PostTicks == {0, Grain, MaxPostUnits * Grain}

\* digitalRead(VIB_PIN) returns LOW (0) or HIGH (1)
PinLevels == {0, 1}
\* analogRead(GAS_PIN): 12-bit samples around the two thresholds
AnalogValues == {3400, 3500, 3999, 4000}
\* what http.POST returns: transport errors (negative), 0, HTTP statuses
HttpCodes == {-1, 0, 200, 500}

Min(a, b) == IF a <= b THEN a ELSE b

VARIABLES
    pc,             \* where the sketch is: "setup", "loop" (between passes), "post"
    clock,          \* millis(): the value of the clock at its latest observation
    now,            \* loop()'s local now
    lastReadTime,
    lastSendTime,
    eventCount,
    lastReading,
    currentReading,
    gasRaw,
    gasStatus,
    wifi,           \* WiFi.status() == WL_CONNECTED
    httpOpen,       \* HTTPClient sessions begun and not ended
    inFlight,       \* POST requests issued and not yet returned
    payload,        \* the body of the POST in flight ("" when none)
    serial,         \* what the latest pass of loop() printed
    \* history variables, read by the properties only
    wrapped,        \* the clock has wrapped around since boot
    sinceRead,      \* true ms from the clock reading kept in lastReadTime to clock
    sinceSend,      \* true ms from the clock reading kept in lastSendTime to clock
    nSamples,       \* sample steps so far (saturating)
    nSends,         \* publish steps so far (saturating)
    spareSamples,   \* sample steps so far beyond the 2 * eventCount - lastReading
                    \* that the counted events need (saturating)
    postsInPass     \* POSTs issued by the latest pass of loop()

vars == <<pc, clock, now, lastReadTime, lastSendTime, eventCount, lastReading,
          currentReading, gasRaw, gasStatus, wifi, httpOpen, inFlight, payload,
          serial, wrapped, sinceRead, sinceSend, nSamples, nSends, spareSamples,
          postsInPass>>

progVars == <<lastReadTime, lastSendTime, eventCount, lastReading,
              currentReading, gasRaw, gasStatus>>
httpVars == <<httpOpen, inFlight, payload, serial, postsInPass>>

(* ------------------------------ helpers -------------------------------- *)
\* unsigned long subtraction a - b
USub(a, b) == (a - b) % ClockMod

\* String(int): decimal digits, most significant first, '-' for negatives
DigitChar(d) ==
    CASE d = 0 -> "0" [] d = 1 -> "1" [] d = 2 -> "2" [] d = 3 -> "3"
      [] d = 4 -> "4" [] d = 5 -> "5" [] d = 6 -> "6" [] d = 7 -> "7"
      [] d = 8 -> "8" [] d = 9 -> "9"

RECURSIVE Digits(_)
Digits(n) == IF n < 10 THEN DigitChar(n) ELSE Digits(n \div 10) \o DigitChar(n % 10)

\* (the digits in the order the division produces them)
RECURSIVE DigitsReversed(_)
DigitsReversed(n) ==
    IF n < 10 THEN DigitChar(n) ELSE DigitChar(n % 10) \o DigitsReversed(n \div 10)

StringReversed(n) == IF n < 0 THEN "-" \o DigitsReversed(0 - n) ELSE DigitsReversed(n)

String(n) == IF n < 0 THEN "-" \o Digits(0 - n) ELSE Digits(n)

\* an elapsed time x, d ms later (kept up to a whole turn of the clock)
Later(x, d) == Min(x + d, ClockMod)

\* the clock moves on by d ms while the sketch waits
Advance(d) ==
    /\ clock' = (clock + d) % ClockMod
    /\ wrapped' = (wrapped \/ clock + d >= ClockMod)
    /\ sinceRead' = Later(sinceRead, d)
    /\ sinceSend' = Later(sinceSend, d)

Count(n) == Min(n + 1, MaxCount)

(* ------------------------------- Init ---------------------------------- *)
Init ==
    /\ pc = "setup"
    /\ clock = 0
    /\ now = 0
    /\ lastReadTime = 0
    /\ lastSendTime = 0
    /\ eventCount = 0
    /\ lastReading = 0
    /\ currentReading = 0
    /\ gasRaw = 0
    /\ gasStatus = "MEDIUM"
    /\ wifi = FALSE
    /\ httpOpen = 0
    /\ inFlight = 0
    /\ payload = ""
    /\ serial = <<>>
    /\ wrapped = FALSE
    /\ sinceRead = 0
    /\ sinceSend = 0
    /\ nSamples = 0
    /\ spareSamples = 0
    /\ nSends = 0
    /\ postsInPass = 0

(* ----------------------------- environment ----------------------------- *)
\* the access point comes and goes
WifiChange ==
    /\ wifi' = ~wifi
    /\ UNCHANGED <<pc, clock, now, progVars, httpVars, wrapped, sinceRead,
                   sinceSend, nSamples, spareSamples, nSends>>

(* -------------------------------- setup -------------------------------- *)
\* (a connection attempt that gives up after a while)
SetupWaitWithTimeout == ~wifi /\ ~wrapped

\* while (WiFi.status() != WL_CONNECTED) { delay(500); ... }
SetupStillWaiting == ~wifi

SetupWait ==
    /\ pc = "setup"
    /\ SetupStillWaiting
    /\ Advance(SETUP_DELAY)
    /\ UNCHANGED <<pc, now, progVars, wifi, httpVars, nSamples, spareSamples, nSends>>

SetupDone ==
    /\ pc = "setup"
    /\ ~SetupStillWaiting
    /\ pc' = "loop"
    /\ UNCHANGED <<clock, now, progVars, wifi, httpVars, wrapped, sinceRead,
                   sinceSend, nSamples, spareSamples, nSends>>

(* -------------------------------- loop --------------------------------- *)
\* unsigned long now = millis();   (the clock is d ms further on)
ReadClock(d) ==
    /\ clock' = (clock + d) % ClockMod
    /\ wrapped' = (wrapped \/ clock + d >= ClockMod)
    /\ now' = clock'

\* (a sample check against the publish timer)
ReadDueWrongTimer == USub(now', lastSendTime) >= READ_INTERVAL

\* (a sample interval longer than the publish interval)
ReadDueSlowerThanSend == USub(now', lastReadTime) >= SEND_INTERVAL + Grain

\* now - lastReadTime >= READ_INTERVAL
ReadDue == USub(now', lastReadTime) >= READ_INTERVAL

\* (the next scheduled time instead of the time read)
ReadStampScheduled == (lastReadTime + READ_INTERVAL) % ClockMod

\* lastReadTime = now;
ReadStamp == now'

\* eventCount++ on an int: past INT_MAX the behaviour is undefined
Increment(n) == IF n < IntMax THEN {n + 1} ELSE IntMin .. IntMax

\* (the thresholds compared with > instead of >=)
ClassifyStrict(g) ==
    IF g > RISK_LEVEL THEN "RISK"
    ELSE IF g > WARNING_LEVEL THEN "WARNING"
    ELSE "MEDIUM"

\* (a classification without the middle tier)
ClassifyTwoTier(g) == IF g >= RISK_LEVEL THEN "RISK" ELSE "MEDIUM"

\* the tiers of the if / else if / else chain
Classify(g) ==
    IF g >= RISK_LEVEL THEN "RISK"
    ELSE IF g >= WARNING_LEVEL THEN "WARNING"
    ELSE "MEDIUM"

\* (a counter of triggered samples instead of rising edges)
SensorReadCountsLevel(level, analog) ==
    /\ ReadDue
    /\ lastReadTime' = ReadStamp
    /\ LET reading == 1 - level IN
         /\ gasRaw' = analog
         /\ currentReading' = reading
         /\ IF reading = 1
              THEN eventCount' \in Increment(eventCount)
              ELSE eventCount' = eventCount
         /\ lastReading' = reading
    /\ gasStatus' = Classify(gasRaw')
    /\ sinceRead' = 0
    /\ nSamples' = Count(nSamples)
    /\ spareSamples' = Min(MaxCount, spareSamples + 1 - 2 * (eventCount' - eventCount)
                                        + (lastReading' - lastReading))

\* the sensor-read block, taken: the sample step
SensorRead(level, analog) ==
    /\ ReadDue
    /\ lastReadTime' = ReadStamp
    /\ LET reading == 1 - level IN
         /\ gasRaw' = analog
         /\ currentReading' = reading
         /\ IF reading = 1 /\ lastReading = 0
              THEN eventCount' \in Increment(eventCount)
              ELSE eventCount' = eventCount
         /\ lastReading' = reading
    /\ gasStatus' = Classify(gasRaw')
    /\ sinceRead' = 0
    /\ nSamples' = Count(nSamples)
    /\ spareSamples' = Min(MaxCount, spareSamples + 1 - 2 * (eventCount' - eventCount)
                                        + (lastReading' - lastReading))

\* the sensor-read block, not due
SensorSkip(d) ==
    /\ ~ReadDue
    /\ sinceRead' = Later(sinceRead, d)
    /\ UNCHANGED <<lastReadTime, eventCount, lastReading, currentReading,
                   gasRaw, gasStatus, nSamples, spareSamples>>

\* now - lastSendTime >= SEND_INTERVAL
SendDue == USub(now', lastSendTime) >= SEND_INTERVAL

\* (the publish timer moved on only when the publish can go out)
SendFireWhenConnected ==
    /\ SendDue
    /\ lastSendTime' = (IF wifi THEN now' ELSE lastSendTime)
    /\ sinceSend' = 0
    /\ nSends' = Count(nSends)

\* (a publish timer that moves on by one interval, keeping to the schedule)
SendFireScheduled ==
    /\ SendDue
    /\ lastSendTime' = (lastSendTime + SEND_INTERVAL) % ClockMod
    /\ sinceSend' = 0
    /\ nSends' = Count(nSends)

\* the send block, taken: lastSendTime = now; sendToBackend();
SendFire ==
    /\ SendDue
    /\ lastSendTime' = now'
    /\ sinceSend' = 0
    /\ nSends' = Count(nSends)

\* the send block, not due
SendSkip(d) ==
    /\ ~SendDue
    /\ sinceSend' = Later(sinceSend, d)
    /\ serial' = <<>>
    /\ postsInPass' = 0
    /\ pc' = "loop"
    /\ UNCHANGED <<lastSendTime, nSends, httpOpen, inFlight, payload>>

(* ---------------------------- sendToBackend ---------------------------- *)
\* if (WiFi.status() != WL_CONNECTED) { Serial.println(...); return; }
SendNotConnected ==
    /\ ~wifi
    /\ serial' = <<"WiFi not connected">>
    /\ postsInPass' = 0
    /\ pc' = "loop"
    /\ UNCHANGED <<httpOpen, inFlight, payload>>

\* the String payload built by concatenation
Payload ==
    "{" \o "\"device_id\":\"" \o DEVICE_ID \o "\","
        \o "\"vibration\":" \o String(currentReading) \o ","
        \o "\"event_count\":" \o String(eventCount) \o ","
        \o "\"gas_raw\":" \o String(gasRaw) \o ","
        \o "\"gas_status\":\"" \o gasStatus \o "\""
        \o "}"

\* (a payload built from the values held before the sensor-read block)
SendPostBeforeSample ==
    /\ wifi
    /\ httpOpen' = httpOpen + 1
    /\ payload' = Payload
    /\ inFlight' = inFlight + 1
    /\ postsInPass' = 1
    /\ serial' = <<>>
    /\ pc' = "post"

\* http.begin, the headers, the payload, and the call of http.POST; the
\* payload is built after the sensor-read block of the same pass
SendPost ==
    /\ wifi
    /\ httpOpen' = httpOpen + 1
    /\ payload' = Payload'
    /\ inFlight' = inFlight + 1
    /\ postsInPass' = 1
    /\ serial' = <<>>
    /\ pc' = "post"

\* the sensor-read block with whatever the pins give
Sample == \E level \in PinLevels, analog \in AnalogValues : SensorRead(level, analog)

\* one pass of loop(), from millis() to its return or to the POST call
LoopPass(d) ==
    /\ pc = "loop"
    /\ ReadClock(d)
    /\ \/ Sample
       \/ SensorSkip(d)
    /\ \/ SendSkip(d)
       \/ SendFire /\ SendNotConnected
       \/ SendFire /\ SendPost
    /\ UNCHANGED wifi

\* (a response read only for a 2xx status)
PostLogOn2xx(code) ==
    IF code >= 200 /\ code < 300 THEN <<"HTTP", code, "response">> ELSE <<"HTTP", code>>

\* what the rest of sendToBackend prints for a result code
PostLog(code) ==
    IF code > 0 THEN <<"HTTP", code, "response">> ELSE <<"HTTP", code>>

\* (a failed POST that is sent again)
PostReturnRetry(code, d) ==
    /\ pc = "post"
    /\ Advance(d)
    /\ serial' = PostLog(code)
    /\ IF code >= 200 /\ code < 300
         THEN /\ inFlight' = inFlight - 1
              /\ httpOpen' = httpOpen - 1
              /\ payload' = ""
              /\ postsInPass' = postsInPass
              /\ pc' = "loop"
         ELSE /\ postsInPass' = postsInPass + 1
              /\ UNCHANGED <<inFlight, httpOpen, payload, pc>>
    /\ UNCHANGED <<now, progVars, wifi, nSamples, spareSamples, nSends>>

\* (a transport error that stops the sketch)
PostReturnHalt(code, d) ==
    /\ pc = "post"
    /\ Advance(d)
    /\ inFlight' = inFlight - 1
    /\ serial' = PostLog(code)
    /\ httpOpen' = httpOpen - 1
    /\ payload' = ""
    /\ pc' = (IF code < 0 THEN "halt" ELSE "loop")
    /\ UNCHANGED <<now, progVars, wifi, postsInPass, nSamples, spareSamples, nSends>>

\* (an event counter that starts again once a publish has been accepted)
PostReturnResetCount(code, d) ==
    /\ pc = "post"
    /\ Advance(d)
    /\ inFlight' = inFlight - 1
    /\ serial' = PostLog(code)
    /\ httpOpen' = httpOpen - 1
    /\ payload' = ""
    /\ pc' = "loop"
    /\ eventCount' = (IF code >= 200 /\ code < 300 THEN 0 ELSE eventCount)
    /\ UNCHANGED <<now, lastReadTime, lastSendTime, lastReading, currentReading,
                   gasRaw, gasStatus, wifi, postsInPass, nSamples, spareSamples, nSends>>

\* http.POST returns code after d ms; the code and the response are
\* printed; http.end(); sendToBackend and loop() return
PostReturn(code, d) ==
    /\ pc = "post"
    /\ Advance(d)
    /\ inFlight' = inFlight - 1
    /\ serial' = PostLog(code)
    /\ httpOpen' = httpOpen - 1
    /\ payload' = ""
    /\ pc' = "loop"
    /\ UNCHANGED <<now, progVars, wifi, postsInPass, nSamples, spareSamples, nSends>>

(* ------------------------------- Next ---------------------------------- *)
Pass == \E d \in LoopTicks : LoopPass(d)
Return == \E code \in HttpCodes, d \in PostTicks : PostReturn(code, d)

Next ==
    \/ WifiChange
    \/ SetupWait
    \/ SetupDone
    \/ Pass
    \/ Return

Spec == Init /\ [][Next]_vars

\* the steps of a pass, as the properties name them
SampleStep == \E d \in LoopTicks : pc = "loop" /\ ReadClock(d) /\ Sample
PublishStep == \E d \in LoopTicks : pc = "loop" /\ ReadClock(d) /\ SendFire
PublishSkipped == PublishStep /\ SendNotConnected
PublishPosted == PublishStep /\ SendPost

\* a pass that finds the clock further on
ClockTick == \E d \in LoopTicks \ {0} : LoopPass(d)

\* The Arduino core calls loop() again whenever it returns, and the clock
\* keeps advancing: the loop is not left spinning within one clock grain
\* for ever.  Every POST call returns.
LiveSpec ==
    /\ Spec
    /\ WF_vars(ClockTick)
    /\ WF_vars(Return)

(* ============================== properties ============================== *)

\* C1: in every sample step eventCount goes up by exactly 1 when the
\* triggered value read is 1 and the one stored by the previous sample step
\* (lastReading) is 0, and is unchanged otherwise.
C1_EdgeCount ==
    [][SampleStep =>
         eventCount' = (IF currentReading' = 1 /\ lastReading = 0
                          THEN eventCount + 1 ELSE eventCount)]_vars

\* C2: after every sample step gasStatus is RISK for gasRaw >= 4000,
\* WARNING for 3500 <= gasRaw < 4000 and MEDIUM for gasRaw < 3500.
C2_GasTiers ==
    [][SampleStep =>
         /\ (gasRaw' >= 4000 => gasStatus' = "RISK")
         /\ (gasRaw' >= 3500 /\ gasRaw' < 4000 => gasStatus' = "WARNING")
         /\ (gasRaw' < 3500 => gasStatus' = "MEDIUM")]_vars

\* a sample step has just classified a reading that sits on a threshold
C2_Witness ==
    /\ pc = "loop"
    /\ lastReadTime = now
    /\ sinceRead = 0
    /\ nSamples > 0
    /\ gasRaw = 3500
    /\ gasStatus = "WARNING"

\* C3: the clock readings of two consecutive sample steps are at least
\* READ_INTERVAL apart and those of two consecutive publish steps at least
\* SEND_INTERVAL apart, in true elapsed time and on the millis() counter.
C3_MinSpacing ==
    [][\A d \in LoopTicks :
         pc = "loop" /\ ReadClock(d) =>
           /\ (SampleStep =>
                 /\ Later(sinceRead, d) >= READ_INTERVAL
                 /\ USub(lastReadTime', lastReadTime) >= READ_INTERVAL)
           /\ (PublishStep =>
                 /\ Later(sinceSend, d) >= SEND_INTERVAL
                 /\ USub(lastSendTime', lastSendTime) >= SEND_INTERVAL)]_vars

\* a second publish step has just run, after a wrap of the clock, in a pass
\* that also sampled
C3_Witness ==
    /\ nSends >= 2
    /\ nSamples >= 2
    /\ wrapped
    /\ lastSendTime = now
    /\ lastReadTime = now
    /\ sinceSend = 0
    /\ sinceRead = 0

\* C4: a publish that is due while WiFi is down begins no HTTP request and
\* posts nothing, leaves lastSendTime at now, and is not made up: every
\* publish step comes at least SEND_INTERVAL after the one before it.
C4_SkipNotMadeUp ==
    [][/\ (PublishSkipped =>
             /\ httpOpen' = 0
             /\ inFlight' = 0
             /\ postsInPass' = 0
             /\ payload' = ""
             /\ pc' = "loop"
             /\ lastSendTime' = now'
             /\ sinceSend' = 0)
       /\ (PublishStep =>
             \A d \in LoopTicks : ReadClock(d) => Later(sinceSend, d) >= SEND_INTERVAL)]_vars

\* a publish has just been skipped, after an earlier one, and WiFi is back
\* before the next one is due
C4_Witness ==
    /\ pc = "loop"
    /\ wifi
    /\ serial = <<"WiFi not connected">>
    /\ nSends >= 2
    /\ lastSendTime = now
    /\ sinceSend < SEND_INTERVAL

\* C5: a pass of loop() issues at most one POST, whatever code comes back,
\* and at most one POST is in flight: a pass starts only when the POST of
\* the pass before it has returned.
C5_AtMostOnePost ==
    /\ postsInPass <= 1
    /\ inFlight <= 1
    /\ httpOpen <= 1
    /\ (inFlight = 1 <=> pc = "post")
    /\ (pc = "loop" => httpOpen = 0)

\* a POST has failed at the transport level and the loop is running again
C5_Witness ==
    /\ pc = "loop"
    /\ serial = <<"HTTP", -1>>
    /\ postsInPass = 1
    /\ inFlight = 0

\* C6: the body of every POST is the five fields device_id, vibration,
\* event_count, gas_raw, gas_status, in that order, with the values the
\* sketch holds while the POST is out.
C6_BodySnapshot ==
    inFlight > 0 =>
      /\ payload = "{\"device_id\":\"esp32_001\",\"vibration\":"
                     \o ToString(currentReading)
                     \o ",\"event_count\":" \o ToString(eventCount)
                     \o ",\"gas_raw\":" \o ToString(gasRaw)
                     \o ",\"gas_status\":\"" \o gasStatus \o "\"}"
      /\ (currentReading = 1 /\ eventCount = 2 /\ gasRaw = 4000 /\ gasStatus = "RISK"
            => payload = "{\"device_id\":\"esp32_001\",\"vibration\":1,\"event_count\":2,\"gas_raw\":4000,\"gas_status\":\"RISK\"}")

\* the POST of the scenario is out
C6_Witness ==
    /\ pc = "post"
    /\ payload = "{\"device_id\":\"esp32_001\",\"vibration\":1,\"event_count\":2,\"gas_raw\":4000,\"gas_status\":\"RISK\"}"

\* C7: as long as setup is polling nothing has been sampled or published
\* and every variable has its initial value; setup is left only in a state
\* where WiFi is connected, however long that takes.
C7_SetupBlocks ==
    /\ [](pc = "setup" =>
            /\ eventCount = 0 /\ gasRaw = 0 /\ gasStatus = "MEDIUM"
            /\ lastReadTime = 0 /\ lastSendTime = 0
            /\ nSamples = 0 /\ nSends = 0
            /\ inFlight = 0 /\ httpOpen = 0 /\ postsInPass = 0)
    /\ [][pc = "setup" /\ ~wifi => pc' = "setup"]_vars
    /\ [][pc = "setup" /\ pc' # "setup" => wifi /\ pc' = "loop"]_vars

\* setup has polled for longer than a whole turn of the clock
C7_Witness ==
    /\ pc = "setup"
    /\ ~wifi
    /\ wrapped
    /\ sinceRead = ClockMod

\* C8: once in the loop the sketch never leaves it; every POST call that
\* returns, whatever its code, hands control back to the loop; and while
\* the clock advances and POST calls return, sample steps and publish
\* steps both happen again and again.
C8_LoopForever ==
    /\ [][pc # "setup" => pc' # "setup"]_vars
    /\ [](pc \in {"setup", "loop", "post"})
    /\ [][pc = "post" /\ pc' # "post" => pc' = "loop" /\ inFlight' = 0]_vars
    /\ (<>(pc # "setup") => ([]<><<SampleStep>>_vars /\ []<><<PublishStep>>_vars))

\* after a wrap of the clock a POST has failed at the transport level and
\* the sketch is back at the top of the loop, with earlier steps behind it
C8_Witness ==
    /\ pc = "loop"
    /\ nSamples >= 2
    /\ nSends >= 2
    /\ serial = <<"HTTP", -1>>
    /\ wrapped

\* C9 as stated: both timers are at most the current clock reading
C9_TimersBelowClock == lastReadTime <= clock /\ lastSendTime <= clock

\* C9, amended: until the clock wraps both timers are at most the clock
\* reading; in every state each timer is the clock reading minus the time
\* elapsed since it was set, modulo the clock's range; each is only ever
\* assigned the now that its own pass read from the clock.
C9_TimersBehindClock ==
    /\ [](~wrapped => lastReadTime <= clock /\ lastSendTime <= clock)
    /\ [](sinceRead < ClockMod => USub(clock, lastReadTime) = sinceRead)
    /\ [](sinceSend < ClockMod => USub(clock, lastSendTime) = sinceSend)
    /\ [][lastReadTime' # lastReadTime => lastReadTime' = now' /\ now' = clock']_vars
    /\ [][lastSendTime' # lastSendTime => lastSendTime' = now' /\ now' = clock']_vars

\* before any wrap, both steps have run and a POST has blocked for a while
C9_Witness ==
    /\ ~wrapped
    /\ nSamples >= 1
    /\ nSends >= 1
    /\ lastReadTime > 0
    /\ lastSendTime > 0
    /\ lastSendTime < clock

\* C10: eventCount never decreases and is never negative
C10_CountMonotone == [][eventCount' >= eventCount /\ eventCount' >= 0]_vars

\* C11: in every state, the initial one included, gasStatus is the tier of
\* the current gasRaw (RISK from 4000, WARNING from 3500, MEDIUM below), and
\* the body of a POST that is out pairs the gas_raw it carries with the
\* gas_status of that tier.
C11_StatusTracksRaw ==
    LET tier == IF gasRaw >= 4000 THEN "RISK"
                ELSE IF gasRaw >= 3500 THEN "WARNING"
                ELSE "MEDIUM"
    IN /\ gasStatus = tier
       /\ (pc = "setup" => gasRaw = 0 /\ gasStatus = "MEDIUM")
       /\ (inFlight > 0 =>
             payload = "{\"device_id\":\"esp32_001\",\"vibration\":"
                         \o ToString(currentReading)
                         \o ",\"event_count\":" \o ToString(eventCount)
                         \o ",\"gas_raw\":" \o ToString(gasRaw)
                         \o ",\"gas_status\":\"" \o tier \o "\"}")

\* a POST is out with a reading just below the RISK threshold
C11_Witness ==
    /\ pc = "post"
    /\ nSamples >= 1
    /\ gasRaw = 3999
    /\ gasStatus = "WARNING"

\* C12: every pass of loop() reads the clock once into now and holds both
\* due-checks against it, the sample check first and the publish check
\* second: each step runs exactly when its own check is due, whatever the
\* other did; when both are due both run, both timers get the same now, and
\* the body posted by that pass carries the values that pass sampled.
C12_OneReadingBothChecks ==
    [][Pass =>
         LET readDue == USub(now', lastReadTime) >= READ_INTERVAL
             sendDue == USub(now', lastSendTime) >= SEND_INTERVAL
         IN /\ now' = clock'
            /\ (readDue => SampleStep /\ lastReadTime' = now')
            /\ (~readDue => ~SampleStep /\ lastReadTime' = lastReadTime)
            /\ (sendDue => PublishStep /\ lastSendTime' = now')
            /\ (~sendDue => ~PublishStep /\ lastSendTime' = lastSendTime)
            /\ (readDue /\ sendDue =>
                  /\ lastReadTime' = lastSendTime'
                  /\ sinceRead' = 0 /\ sinceSend' = 0
                  /\ (wifi <=> pc' = "post")
                  /\ (pc' = "post" =>
                        payload' = "{\"device_id\":\"esp32_001\",\"vibration\":"
                                     \o ToString(currentReading')
                                     \o ",\"event_count\":" \o ToString(eventCount')
                                     \o ",\"gas_raw\":" \o ToString(gasRaw')
                                     \o ",\"gas_status\":\"" \o gasStatus' \o "\"}"))]_vars

\* a pass has just sampled and posted on one reading of the clock
C12_Witness ==
    /\ pc = "post"
    /\ lastReadTime = now
    /\ lastSendTime = now
    /\ sinceRead = 0
    /\ sinceSend = 0
    /\ nSends >= 2
    /\ currentReading = 1
    /\ gasRaw = 4000

\* C13: the sample state (currentReading, lastReading, eventCount, gasRaw,
\* gasStatus) and lastReadTime change only in a step that runs the sample
\* step, lastSendTime only in a step that runs the publish step, and none of
\* them while a POST is out or when it returns, whatever its code.
C13_Frames ==
    [][/\ (~SampleStep =>
             UNCHANGED <<currentReading, lastReading, eventCount, gasRaw,
                         gasStatus, lastReadTime>>)
       /\ (~PublishStep => lastSendTime' = lastSendTime)
       /\ (pc = "post" => UNCHANGED progVars)]_vars

\* a publish that ran in a pass without a sample step has been accepted and
\* has returned, with events counted before it
C13_Witness ==
    /\ pc = "loop"
    /\ serial = <<"HTTP", 200, "response">>
    /\ lastSendTime # lastReadTime
    /\ nSamples >= 2
    /\ eventCount >= 1

\* C14: however long it is since the step last ran, a pass of loop() runs
\* the sample step at most once and the publish step at most once; a step
\* that runs stamps its timer with the now of that pass, not with the time
\* it was scheduled for, so that after the pass neither step is still due
\* on that reading and the next one is a full interval after the late one.
C14_NoCatchUp ==
    [][\A d \in LoopTicks :
         pc = "loop" /\ ReadClock(d) =>
           /\ nSamples' <= nSamples + 1
           /\ nSends' <= nSends + 1
           /\ postsInPass' <= 1
           /\ (eventCount < IntMax => eventCount' <= eventCount + 1)
           /\ (SampleStep =>
                 /\ lastReadTime' = now'
                 /\ sinceRead' = 0
                 /\ (Later(sinceRead, d) < ClockMod =>
                       USub(lastReadTime', lastReadTime) = Later(sinceRead, d)))
           /\ (PublishStep =>
                 /\ lastSendTime' = now'
                 /\ sinceSend' = 0
                 /\ (Later(sinceSend, d) < ClockMod =>
                       USub(lastSendTime', lastSendTime) = Later(sinceSend, d)))
           /\ (Pass =>
                 /\ USub(now', lastReadTime') < READ_INTERVAL
                 /\ USub(now', lastSendTime') < SEND_INTERVAL)]_vars

\* a POST has blocked for the longest time and the pass after it has run the
\* sample step, once, on the reading it took
C14_Witness ==
    /\ pc = "loop"
    /\ postsInPass = 0
    /\ nSamples >= 2
    /\ nSends >= 1
    /\ sinceRead = 0
    /\ lastReadTime = now
    /\ sinceSend = MaxPostUnits * Grain
    /\ USub(lastReadTime, lastSendTime) = MaxPostUnits * Grain

\* C15: when the POST of a connected publish returns, its code is logged,
\* the response is read and logged exactly when the code is greater than 0,
\* the one HTTP session that was begun is ended, nothing stays in flight,
\* and control is back in the loop; while the POST is out exactly one
\* session is open.
C15_PostOutcome ==
    /\ [](pc = "post" => httpOpen = 1 /\ inFlight = 1)
    /\ [][pc = "post" /\ pc' # "post" =>
            /\ pc' = "loop"
            /\ httpOpen' = 0
            /\ inFlight' = 0
            /\ Len(serial') \in {2, 3}
            /\ serial'[1] = "HTTP"
            /\ serial'[2] \in HttpCodes
            /\ (serial'[2] > 0 <=> Len(serial') = 3)
            /\ (Len(serial') = 3 => serial'[3] = "response")]_vars

\* a POST has returned code 0 and the sketch is back in the loop with the
\* session ended and no response read
C15_Witness ==
    /\ pc = "loop"
    /\ serial = <<"HTTP", 0>>
    /\ httpOpen = 0
    /\ inFlight = 0
    /\ postsInPass = 1

\* C16: at every publish step the latest sample is less than READ_INTERVAL
\* old, on the millis() counter and in true elapsed time; so a sample step
\* has run before the first publish step, one has run since the publish
\* step before this one, and no POST is ever out with the unsampled state.
\* (A POST returns within MaxPostUnits clock grains, well inside one turn
\* of the clock.)
C16_FreshAtPublish ==
    /\ [][\A d \in LoopTicks :
            pc = "loop" /\ ReadClock(d) /\ PublishStep =>
              /\ USub(now', lastReadTime') < READ_INTERVAL
              /\ sinceRead' < READ_INTERVAL
              /\ nSamples' >= 1
              /\ sinceRead' < Later(sinceSend, d)]_vars
    /\ [](nSends >= 1 => nSamples >= 1)
    /\ [](pc = "post" => nSamples >= 1 /\ sinceRead < READ_INTERVAL)

\* a POST is out that was due in a pass where the sample step was not: the
\* values it carries were sampled two clock grains before
C16_Witness ==
    /\ pc = "post"
    /\ nSends >= 2
    /\ nSamples >= 2
    /\ sinceSend = 0
    /\ lastSendTime = now
    /\ sinceRead = 2 * Grain
    /\ USub(now, lastReadTime) = 2 * Grain

\* C17: in every state currentReading equals lastReading and both are 0 or
\* 1, so the vibration field of a POST that is out is 0 or 1; eventCount
\* changes only in a sample step that reads 1 after a sample step that read
\* 0, so the sample steps taken so far are never fewer than
\* 2 * eventCount - lastReading: eventCount is at most half of them,
\* rounded up.
C17_ReadingsAndCount ==
    /\ [](currentReading = lastReading /\ currentReading \in {0, 1})
    /\ [](inFlight > 0 =>
            \E v \in {0, 1} :
              payload = "{\"device_id\":\"esp32_001\",\"vibration\":" \o ToString(v)
                          \o ",\"event_count\":" \o ToString(eventCount)
                          \o ",\"gas_raw\":" \o ToString(gasRaw)
                          \o ",\"gas_status\":\"" \o gasStatus \o "\"}")
    /\ [][eventCount' # eventCount =>
            SampleStep /\ lastReading = 0 /\ lastReading' = 1]_vars
    /\ [](spareSamples >= 0)
    /\ [][spareSamples' >= spareSamples]_vars
    /\ [](nSamples < MaxCount => 2 * eventCount <= nSamples + 1)

\* three sample steps have read 1, 0, 1: two events are counted, as many as
\* three samples allow
C17_Witness ==
    /\ pc = "loop"
    /\ eventCount = 2
    /\ spareSamples = 0
    /\ lastReading = 1
    /\ currentReading = 1

====
